---- MODULE Spec2Model ----
(***************************************************************************)
(* Model of the todo_cli task store (src/src/todolist.rs), its task        *)
(* entity (src/src/task.rs), its exporters (src/src/exporter.rs) and the   *)
(* list command of src/src/main.rs.                                        *)
(*                                                                         *)
(* Option<T> is modelled as a sequence: <<>> is None, <<v>> is Some(v).    *)
(* A JSON scalar is a tagged tuple: <<"null">>, <<"num", n>>,              *)
(* <<"bool", b>>, <<"str", s>>.  A file is <<"absent">>, <<"garbage">>     *)
(* (empty or truncated text that does not parse) or <<"json", doc>>; the   *)
(* export sinks hold <<"csv", rows>>, <<"yaml", doc>> or <<"md", lines>>.  *)
(* A path is <<stem, extension>>.                                          *)
(***************************************************************************)
EXTENDS Integers, Sequences, FiniteSets, TLC

\* ------------------------------------------------------------------ bounds
\* ids are capped, so a store holds at most MaxId tasks
MaxId == 3
MaxTime == 1
MaxIoErrors == 1

\* ------------------------------------------------------------------ inputs
Paths == {<<"todo", "json">>}
\* the paths a store is bound to when exports are looked at
ExportPaths == {<<"todo", "json">>, <<"todo", "md">>, <<"list", "csv">>}
Times == 0..MaxTime
Positions == (0 - 1)..(MaxId + 1)

\* i32::MIN and i32::MAX
I32Min == 0 - 2147483647 - 1
I32Max == 2147483647

\* positions at the ends of the i32 range, next to ordinary ones
I32Positions == {I32Min, I32Min + 1, 0 - 1, 0, 1, MaxId, MaxId + 1, I32Max}

None == <<>>
Some(v) == <<v>>

PriorityEnum == {"High", "Medium", "Low"}
AddInputs == {<<"a", None>>, <<"b", Some("High")>>}

\* PathBuf::default()
DefaultPath == <<"", "">>

FormatEnum == {"Json", "Csv", "Yaml", "Markdown"}

\* Path::with_extension(ext): a path without file name is returned as it is
WithExtension(p, ext) == IF p[1] = "" THEN p ELSE <<p[1], ext>>

\* every file an operation can touch
Files ==
  UNION {{p, WithExtension(p, "csv"), WithExtension(p, "yaml"),
          WithExtension(p, "md")} : p \in Paths \cup ExportPaths}

\* fs::write: done, failed before the file was touched, or failed after the
\* file was truncated
WriteOutcomes == {"ok", "io_unchanged", "io_partial"}
\* fs::read_to_string
ReadOutcomes == {"ok", "err"}

VARIABLES
  tasks,     \* TodoList.tasks
  path,      \* TodoList.path
  fs,        \* the files, by path
  now,       \* the latest reading of Local::now()
  ioErrors,  \* I/O errors injected so far
  ioResult,  \* what export_tasks matched on in the latest operation
  out,       \* the lines displayed by the latest operation
  lastOp,    \* the latest operation
  effect,    \* what the latest operation found to act on
  panicked,  \* the process has been aborted by a panic
  assigned,  \* history: Some(the highest id add_task has assigned since the
             \* store was created), or None where no history is recorded
  shadow     \* reference: Some(the tasks of one store kept in memory, given
             \* the same operations and never reloaded), or None where no
             \* reference is kept

vars ==
  <<tasks, path, fs, now, ioErrors, ioResult, out, lastOp, effect, panicked,
    assigned, shadow>>

\* Local::now(): successive readings do not decrease
Clock == {t \in Times : t >= now}

\* An I/O error may be injected only while the error budget lasts.
Allowed(outcome) == outcome = "ok" \/ ioErrors < MaxIoErrors

Charged(outcome) == IF outcome = "ok" THEN ioErrors ELSE ioErrors + 1

\* the history after an operation, where one is recorded
Recorded(highest) == IF assigned = None THEN None ELSE Some(highest)

\* the reference after an operation, where one is kept
Tracked(ts) == IF shadow = None THEN None ELSE Some(ts)

\* ------------------------------------------------------------- task entity
Task(id, title, done, created_at, completed_at, priority) ==
  [id |-> id, title |-> title, done |-> done, created_at |-> created_at,
   completed_at |-> completed_at, priority |-> priority]

\* ----------------------------------------------------------- serialization
TimeToJson(t) == <<"str", <<"rfc3339", t>>>>

OptTimeToJson(o) == IF o = None THEN <<"null">> ELSE TimeToJson(o[1])

PriorityToJson(o) == IF o = None THEN <<"null">> ELSE <<"str", o[1]>>

TaskToJson(t) ==
  [id |-> <<"num", t.id>>,
   title |-> <<"str", t.title>>,
   done |-> <<"bool", t.done>>,
   created_at |-> TimeToJson(t.created_at),
   completed_at |-> OptTimeToJson(t.completed_at),
   priority |-> PriorityToJson(t.priority)]

\* serde_json::to_string_pretty(todolist): the path is #[serde(skip)]
Serialize(ts) == [tasks |-> [k \in 1..Len(ts) |-> TaskToJson(ts[k])]]

\* the timestamp not parsed back, left at the epoch
JsonToTimeEpoch(j) == 0

JsonToTime(j) == j[2][2]

\* completed_at not read back
JsonToOptTimeLost(j) == None

JsonToOptTime(j) == IF j[1] = "null" THEN None ELSE Some(JsonToTime(j))

\* a reader that does not know the priority field
JsonToPriorityUnread(j) == None

JsonToPriority(j) == IF j[1] = "null" THEN None ELSE Some(j[2])

JsonToTask(j) ==
  Task(j.id[2], j.title[2], j.done[2], JsonToTime(j.created_at),
       JsonToOptTime(j.completed_at), JsonToPriority(j.priority))

\* a priority that is null or names a variant of PriorityEnum
PriorityParses(j) == j[1] = "null" \/ j[2] \in PriorityEnum

\* serde_json::from_str(&content): Ok(store) as <<store>>, Err as <<>>.
\* The skipped path field comes back as PathBuf::default().
Deserialize(content) ==
  IF /\ content[1] = "json"
     /\ \A k \in 1..Len(content[2].tasks) :
          PriorityParses(content[2].tasks[k].priority)
    THEN Some([tasks |-> [k \in 1..Len(content[2].tasks) |->
                             JsonToTask(content[2].tasks[k])],
               path |-> DefaultPath])
    ELSE None

\* todolist.path = path
Rebind(store, p) == [store EXCEPT !.path = p]

\* ------------------------------------------------------------- file system
\* fs::write(path, text): create/truncate then write.
FsWrite(f, p, text, outcome) ==
  CASE outcome = "ok" -> [f EXCEPT ![p] = text]
    [] outcome = "io_partial" -> [f EXCEPT ![p] = <<"garbage">>]
    [] OTHER -> f

\* JsonExporter::export as called by export_tasks(Json): the file system
\* after the call and what export_tasks matched on.
JsonExport(ts, p, f, outcome) ==
  [fs |-> FsWrite(f, p, <<"json", Serialize(ts)>>, outcome),
   result |-> IF outcome = "ok" THEN "ok" ELSE "io_err"]

\* save_tasks: export_tasks(FormatEnum::Json)
SaveTasks(ts, p, f, outcome) == JsonExport(ts, p, f, outcome)

\* {} of a DateTime<Local>
TimeToText(t) == <<"display", t>>

OptTimeToCsv(o) == IF o = None THEN "" ELSE <<"rfc3339", o[1]>>

PriorityToCsv(o) == IF o = None THEN "" ELSE o[1]

CsvHeader == <<"id", "title", "done", "created_at", "completed_at", "priority">>

\* csv.serialize(task): the fields in declaration order
TaskToCsv(t) ==
  <<t.id, t.title, t.done, <<"rfc3339", t.created_at>>,
    OptTimeToCsv(t.completed_at), PriorityToCsv(t.priority)>>

\* the header row is written with the first record
CsvRows(ts) ==
  IF Len(ts) = 0 THEN <<>>
  ELSE <<CsvHeader>> \o [k \in 1..Len(ts) |-> TaskToCsv(ts[k])]

\* CsvExporter::export: Writer::from_path creates or truncates the file and
\* its failure is mapped to SerializationError; a failed flush is an IoError
CsvExport(ts, p, f, outcome) ==
  [fs |-> FsWrite(f, WithExtension(p, "csv"), <<"csv", CsvRows(ts)>>,
                  outcome),
   result |-> CASE outcome = "ok" -> "ok"
                [] outcome = "io_unchanged" -> "ser_err"
                [] OTHER -> "io_err"]

\* YamlExporter::export
YamlExport(ts, p, f, outcome) ==
  [fs |-> FsWrite(f, WithExtension(p, "yaml"), <<"yaml", Serialize(ts)>>,
                  outcome),
   result |-> IF outcome = "ok" THEN "ok" ELSE "io_err"]

\* one line of MarkdownExporter::export
MarkdownLine(t) ==
  [box |-> IF ~t.done THEN "x" ELSE "",
   title |-> t.title,
   created |-> TimeToText(t.created_at),
   completed |-> IF t.completed_at # None
                   THEN Some(TimeToText(t.completed_at[1])) ELSE None]

\* MarkdownExporter::export
MarkdownExport(ts, p, f, outcome) ==
  [fs |-> FsWrite(f, WithExtension(p, "md"),
                  <<"md", [k \in 1..Len(ts) |-> MarkdownLine(ts[k])]>>,
                  outcome),
   result |-> IF outcome = "ok" THEN "ok" ELSE "io_err"]

\* exporter.export(self) for the exporter export_tasks picked
Export(format, ts, p, f, outcome) ==
  CASE format = "Json" -> JsonExport(ts, p, f, outcome)
    [] format = "Csv" -> CsvExport(ts, p, f, outcome)
    [] format = "Yaml" -> YamlExport(ts, p, f, outcome)
    [] OTHER -> MarkdownExport(ts, p, f, outcome)

\* fs::read_to_string(path): Ok(content) as <<content>>, Err as <<>>
FsRead(f, p, outcome) ==
  IF outcome = "ok" /\ f[p][1] # "absent" THEN Some(f[p]) ELSE None

\* ------------------------------------------------------- pure store updates
\* the position taken as zero-based
IndexNoShift(i) == IF i >= 0 THEN Some(i) ELSE None

\* i - 1 on i32 where it is computed: exactly, or wrapped around at i32::MIN
\* (a build without overflow checks)
WrappingSub1(i) == IF i = I32Min THEN I32Max ELSE i - 1

\* what i - 1 does: computed exactly, or at i32::MIN either a panic (a build
\* with overflow checks) or the wrapped value
SubOutcomes(i) == IF i = I32Min THEN {"panic", "wrap"} ELSE {"exact"}

\* usize::try_from(i - 1)
Index(i) == IF WrappingSub1(i) >= 0 THEN Some(WrappingSub1(i)) ELSE None

\* self.tasks.get_mut(index).is_some(), index zero-based
Valid(ts, i) == Index(i) # None /\ Index(i)[1] < Len(ts)

\* ids counted from the length of the sequence
NextIdByLen(ts) == Len(ts) + 1

\* ids started at 0 on an empty sequence
NextIdFromZero(ts) == IF Len(ts) > 0 THEN ts[Len(ts)].id + 1 ELSE 0

\* ids counted on from the first task
NextIdOfFirst(ts) == IF Len(ts) > 0 THEN ts[1].id + 1 ELSE 1

NextId(ts) == IF Len(ts) > 0 THEN ts[Len(ts)].id + 1 ELSE 1

\* the task pushed without its priority
AddedWithoutPriority(ts, title, priority, t) ==
  Append(ts, Task(NextId(ts), title, FALSE, t, None, None))

Added(ts, title, priority, t) ==
  Append(ts, Task(NextId(ts), title, FALSE, t, None, priority))

\* Vec::remove(index): shifts the tail left
VecRemove(ts, index) ==
  [k \in 1..(Len(ts) - 1) |-> IF k <= index THEN ts[k] ELSE ts[k + 1]]

\* removal of the task whose id is i (as the first revision of the program,
\* src/src/main.rs remove_task, did)
RemovedById(ts, i) ==
  IF \E k \in 1..Len(ts) : ts[k].id = i
    THEN VecRemove(ts, (CHOOSE k \in 1..Len(ts) : ts[k].id = i) - 1)
    ELSE ts

Removed(ts, i) == IF Valid(ts, i) THEN VecRemove(ts, Index(i)[1]) ELSE ts

\* done set without the timestamp
CompletedNoStamp(ts, i, t) ==
  IF Valid(ts, i)
    THEN [ts EXCEPT ![Index(i)[1] + 1] = [@ EXCEPT !.done = TRUE]]
    ELSE ts

\* an already completed task left as it is
CompletedOnce(ts, i, t) ==
  IF Valid(ts, i) /\ ~ts[Index(i)[1] + 1].done
    THEN [ts EXCEPT ![Index(i)[1] + 1] =
            [@ EXCEPT !.done = TRUE, !.completed_at = Some(t)]]
    ELSE ts

Completed(ts, i, t) ==
  IF Valid(ts, i)
    THEN [ts EXCEPT ![Index(i)[1] + 1] =
            [@ EXCEPT !.done = TRUE, !.completed_at = Some(t)]]
    ELSE ts

\* done cleared, the timestamp kept
ResetDoneOnly(ts) == [k \in 1..Len(ts) |-> [ts[k] EXCEPT !.done = FALSE]]

Reset(ts) ==
  [k \in 1..Len(ts) |-> [ts[k] EXCEPT !.done = FALSE, !.completed_at = None]]

\* ------------------------------------------------------------------- views
\* slice::Iter::find from position pos (zero-based): the zero-based index of
\* the first task at or after pos with done = want, or Len(ts) if none.
RECURSIVE Find(_, _, _)
Find(ts, pos, want) ==
  IF pos >= Len(ts) THEN Len(ts)
  ELSE IF ts[pos + 1].done = want THEN pos
  ELSE Find(ts, pos + 1, want)

\* collect() of the iterator: the zero-based indices it yields, in order
RECURSIVE Collect(_, _, _)
Collect(ts, pos, want) ==
  LET hit == Find(ts, pos, want)
  IN IF hit >= Len(ts) THEN <<>>
     ELSE <<hit>> \o Collect(ts, hit + 1, want)

CompletedTasks(ts) == Collect(ts, 0, TRUE)

\* the pending view filtering as the completed view does
PendingTasksSame(ts) == Collect(ts, 0, TRUE)

PendingTasks(ts) == Collect(ts, 0, FALSE)

AllTasks(ts) == [k \in 1..Len(ts) |-> k - 1]

PrioritySuffix(o) ==
  CASE o = None -> ""
    [] o = Some("High") -> " - Priority high"
    [] o = Some("Medium") -> " - Priority medium"
    [] OTHER -> " - Priority low"

\* Task::display: the printed line, field by field
Display(t) ==
  IF t.done
    THEN [mark |-> "done", title |-> t.title, created |-> t.created_at,
          completed |-> IF t.completed_at = None THEN <<"Not completed">>
                        ELSE <<"on", t.completed_at[1]>>,
          suffix |-> PrioritySuffix(t.priority)]
    ELSE [mark |-> "pending", title |-> t.title, created |-> t.created_at,
          completed |-> <<>>, suffix |-> PrioritySuffix(t.priority)]

Shown(ts, view) == [k \in 1..Len(view) |-> Display(ts[view[k] + 1])]

\* ----------------------------------------------------------------- actions
EmptyFs == [p \in Files |-> <<"absent">>]

\* The state after TodoList::new(p) on a machine without files: the write
\* ended as o, the clock reads t, and spent I/O errors are already used up.
Fresh(p, o, t, spent) ==
  /\ tasks = <<>>
  /\ path = p
  /\ fs = SaveTasks(<<>>, p, EmptyFs, o).fs
  /\ ioResult = SaveTasks(<<>>, p, EmptyFs, o).result
  /\ ioErrors = IF o = "ok" THEN spent ELSE spent + 1
  /\ now = t
  /\ out = <<>>
  /\ lastOp = "new"
  /\ effect = "none"
  /\ panicked = FALSE

\* The clock has reached MaxTime: every later reading is MaxTime.
Init ==
  \E p \in Paths, o \in WriteOutcomes :
    /\ o = "ok" \/ 0 < MaxIoErrors
    /\ Fresh(p, o, MaxTime, 0)
    /\ assigned = None
    /\ shadow = None

\* The clock starts at 0 and no I/O error is left to inject.
InitClock ==
  /\ \E p \in Paths : Fresh(p, "ok", 0, MaxIoErrors)
  /\ assigned = None
  /\ shadow = None

\* The same, with the history of the ids recorded from the empty store on.
InitIds ==
  /\ \E p \in Paths : Fresh(p, "ok", 0, MaxIoErrors)
  /\ assigned = Some(0)
  /\ shadow = None

\* self.save_tasks() at the end of an operation: the write ends as o
Persist(o) ==
  /\ Allowed(o)
  /\ ioErrors' = Charged(o)
  /\ LET saved == SaveTasks(tasks', path', fs, o)
     IN /\ ioResult' = saved.result
        /\ fs' = saved.fs

\* new panicking when the file cannot be written
NewOrDie(p) ==
  /\ lastOp' = "new"
  /\ ~panicked
  /\ assigned' = Recorded(0)
  /\ shadow' = Tracked(<<>>)
  /\ effect' = "none"
  /\ out' = <<>>
  /\ tasks' = <<>>
  /\ path' = p
  /\ UNCHANGED now
  /\ \E o \in WriteOutcomes :
       /\ Persist(o)
       /\ panicked' = (o # "ok")

\* TodoList::new(path)
New(p) ==
  /\ lastOp' = "new"
  /\ ~panicked
  /\ panicked' = FALSE
  /\ assigned' = Recorded(0)
  /\ shadow' = Tracked(<<>>)
  /\ effect' = "none"
  /\ out' = <<>>
  /\ tasks' = <<>>
  /\ path' = p
  /\ UNCHANGED now
  /\ \E o \in WriteOutcomes : Persist(o)

\* load_tasks falling back to an empty store without creating the file
LoadTasksKeepFile(p) ==
  /\ lastOp' = "load_tasks"
  /\ ~panicked
  /\ panicked' = FALSE
  /\ assigned' = Recorded(0)
  /\ UNCHANGED shadow
  /\ out' = <<>>
  /\ UNCHANGED now
  /\ \E r \in ReadOutcomes :
       LET content == FsRead(fs, p, r)
           parsed == IF content = None THEN None ELSE Deserialize(content[1])
       IN /\ r = "ok" \/ ioErrors < MaxIoErrors
          /\ ioErrors' = IF r = "ok" THEN ioErrors ELSE ioErrors + 1
          /\ ioResult' = "none"
          /\ UNCHANGED fs
          /\ path' = p
          /\ tasks' = IF parsed # None THEN parsed[1].tasks ELSE <<>>
          /\ effect' = IF parsed # None THEN "hit" ELSE "miss"

\* TodoList::load_tasks(path)
LoadTasks(p) ==
  /\ lastOp' = "load_tasks"
  /\ ~panicked
  /\ panicked' = FALSE
  /\ assigned' = Recorded(0)
  /\ UNCHANGED shadow
  /\ out' = <<>>
  /\ UNCHANGED now
  /\ \E r \in ReadOutcomes, o \in WriteOutcomes :
       LET content == FsRead(fs, p, r)
           parsed == IF content = None THEN None ELSE Deserialize(content[1])
           charge == IF r = "ok" THEN ioErrors ELSE ioErrors + 1
       IN /\ r = "ok" \/ ioErrors < MaxIoErrors
          /\ IF parsed # None
               THEN /\ o = "ok"
                    /\ tasks' = Rebind(parsed[1], p).tasks
                    /\ path' = Rebind(parsed[1], p).path
                    /\ effect' = "hit"
                    /\ ioErrors' = charge
                    /\ ioResult' = "none"
                    /\ UNCHANGED fs
               ELSE /\ o = "ok" \/ charge < MaxIoErrors
                    /\ tasks' = <<>>
                    /\ path' = p
                    /\ fs' = SaveTasks(tasks', p, fs, o).fs
                    /\ ioResult' = SaveTasks(tasks', p, fs, o).result
                    /\ effect' = "miss"
                    /\ ioErrors' = IF o = "ok" THEN charge ELSE charge + 1

\* ids are capped: an add is taken only while the id it assigns is within
\* MaxId, or within MaxId + 1 where a task is to be removed from the middle
Room == NextId(tasks) <= MaxId

RoomForOneMore == NextId(tasks) <= MaxId + 1

\* add_task undoing the push when the save fails
AddTaskAllOrNothing(title, priority) ==
  /\ lastOp' = "add_task"
  /\ ~panicked
  /\ panicked' = FALSE
  /\ effect' = "none"
  /\ out' = <<>>
  /\ UNCHANGED path
  /\ \E t \in Clock, o \in WriteOutcomes :
       /\ Allowed(o)
       /\ now' = t
       /\ ioErrors' = Charged(o)
       /\ LET saved == SaveTasks(Added(tasks, title, priority, t), path, fs, o)
          IN /\ ioResult' = saved.result
             /\ fs' = saved.fs
       /\ tasks' = IF o = "ok" THEN Added(tasks, title, priority, t) ELSE tasks
       /\ shadow' = Tracked(Added(shadow[1], title, priority, t))
       /\ assigned' = Recorded(IF o = "ok" /\ NextId(tasks) > assigned[1]
                                 THEN NextId(tasks) ELSE assigned[1])

\* TodoList::add_task(title, priority)
AddTask(title, priority) ==
  /\ lastOp' = "add_task"
  /\ ~panicked
  /\ panicked' = FALSE
  /\ assigned' = Recorded(IF NextId(tasks) > assigned[1]
                            THEN NextId(tasks) ELSE assigned[1])
  /\ effect' = "none"
  /\ out' = <<>>
  /\ UNCHANGED path
  /\ \E t \in Clock :
       /\ now' = t
       /\ tasks' = Added(tasks, title, priority, t)
       /\ shadow' = Tracked(Added(shadow[1], title, priority, t))
  /\ \E o \in WriteOutcomes : Persist(o)

\* remove_task persisting only when it removed something
RemoveTaskLazySave(i) ==
  /\ lastOp' = "remove_task"
  /\ ~panicked
  /\ panicked' = FALSE
  /\ UNCHANGED assigned
  /\ tasks' = Removed(tasks, i)
  /\ shadow' = Tracked(Removed(shadow[1], i))
  /\ effect' = IF Len(tasks') < Len(tasks) THEN "hit" ELSE "miss"
  /\ out' = <<>>
  /\ UNCHANGED <<path, now>>
  /\ IF Len(tasks') < Len(tasks)
       THEN \E o \in WriteOutcomes : Persist(o)
       ELSE /\ ioResult' = "none"
            /\ UNCHANGED <<fs, ioErrors>>

\* TodoList::remove_task(i)
RemoveTask(i) ==
  /\ lastOp' = "remove_task"
  /\ ~panicked
  /\ UNCHANGED assigned
  /\ out' = <<>>
  /\ UNCHANGED <<path, now>>
  /\ \E b \in SubOutcomes(i) :
       IF b = "panic"
         THEN /\ panicked' = TRUE
              /\ effect' = "panic"
              /\ ioResult' = "none"
              /\ UNCHANGED <<tasks, fs, ioErrors, shadow>>
         ELSE /\ panicked' = FALSE
              /\ tasks' = Removed(tasks, i)
              /\ shadow' = Tracked(Removed(shadow[1], i))
              /\ effect' = IF Len(tasks') < Len(tasks) THEN "hit" ELSE "miss"
              /\ \E o \in WriteOutcomes : Persist(o)

\* TodoList::complete_task(i)
CompleteTask(i) ==
  /\ lastOp' = "complete_task"
  /\ ~panicked
  /\ UNCHANGED assigned
  /\ out' = <<>>
  /\ UNCHANGED path
  /\ \E b \in SubOutcomes(i) :
       IF b = "panic"
         THEN /\ panicked' = TRUE
              /\ effect' = "panic"
              /\ ioResult' = "none"
              /\ UNCHANGED <<tasks, now, fs, ioErrors, shadow>>
         ELSE /\ panicked' = FALSE
              /\ IF Valid(tasks, i)
                   THEN \E t \in Clock :
                          /\ now' = t
                          /\ tasks' = Completed(tasks, i, t)
                   ELSE /\ now' = now
                        /\ tasks' = Completed(tasks, i, now)
              /\ shadow' = Tracked(Completed(shadow[1], i, now'))
              /\ effect' =
                   IF Valid(tasks, i)
                     THEN IF ~tasks[i].done THEN "hit"
                          ELSE IF tasks'[i].completed_at
                                    = tasks[i].completed_at
                                 THEN "rehit" ELSE "restamp"
                     ELSE "miss"
              /\ \E o \in WriteOutcomes : Persist(o)

\* TodoList::reset_tasks()
ResetTasks ==
  /\ lastOp' = "reset_tasks"
  /\ ~panicked
  /\ panicked' = FALSE
  /\ UNCHANGED assigned
  /\ tasks' = Reset(tasks)
  /\ shadow' = Tracked(Reset(shadow[1]))
  /\ effect' = IF \E k \in 1..Len(tasks) : tasks[k].done
                 THEN "hit" ELSE "miss"
  /\ out' = <<>>
  /\ UNCHANGED <<path, now>>
  /\ \E o \in WriteOutcomes : Persist(o)

\* TodoList::save_tasks() called on its own
Save ==
  /\ lastOp' = "save_tasks"
  /\ ~panicked
  /\ panicked' = FALSE
  /\ UNCHANGED <<assigned, shadow>>
  /\ effect' = "none"
  /\ out' = <<>>
  /\ UNCHANGED <<tasks, path, now>>
  /\ \E o \in WriteOutcomes : Persist(o)

\* TodoList::export_tasks(format)
ExportTasks(format) ==
  /\ lastOp' = "export_tasks"
  /\ ~panicked
  /\ panicked' = FALSE
  /\ effect' = format
  /\ out' = <<>>
  /\ UNCHANGED <<tasks, path, now, assigned, shadow>>
  /\ \E o \in WriteOutcomes :
       /\ Allowed(o)
       /\ ioErrors' = Charged(o)
       /\ ioResult' = Export(format, tasks, path, fs, o).result
       /\ fs' = Export(format, tasks, path, fs, o).fs

\* TodoList::list_tasks()
ListTasks ==
  /\ out' = Shown(tasks, AllTasks(tasks))
  /\ lastOp' = "list_tasks"
  /\ ~panicked
  /\ panicked' = FALSE
  /\ UNCHANGED <<assigned, shadow>>
  /\ effect' = "none"
  /\ ioResult' = "none"
  /\ UNCHANGED <<tasks, path, fs, now, ioErrors>>

\* TodoList::list_completed_tasks()
ListCompletedTasks ==
  /\ out' = Shown(tasks, CompletedTasks(tasks))
  /\ lastOp' = "list_completed_tasks"
  /\ ~panicked
  /\ panicked' = FALSE
  /\ UNCHANGED <<assigned, shadow>>
  /\ effect' = "none"
  /\ ioResult' = "none"
  /\ UNCHANGED <<tasks, path, fs, now, ioErrors>>

\* TodoList::list_pending_tasks()
ListPendingTasks ==
  /\ out' = Shown(tasks, PendingTasks(tasks))
  /\ lastOp' = "list_pending_tasks"
  /\ ~panicked
  /\ panicked' = FALSE
  /\ UNCHANGED <<assigned, shadow>>
  /\ effect' = "none"
  /\ ioResult' = "none"
  /\ UNCHANGED <<tasks, path, fs, now, ioErrors>>

\* the list command with --pending taking precedence
ListCommandPendingFirst(completed, pending) ==
  IF pending THEN ListPendingTasks
  ELSE IF completed THEN ListCompletedTasks
  ELSE ListTasks

\* main, Commands::List { completed, pending }
ListCommand(completed, pending) ==
  IF completed THEN ListCompletedTasks
  ELSE IF pending THEN ListPendingTasks
  ELSE ListTasks

Next ==
  \/ \E p \in Paths : New(p)
  \/ \E p \in Paths : LoadTasks(p)
  \/ \E a \in AddInputs : Room /\ AddTask(a[1], a[2])
  \/ \E i \in Positions : RemoveTask(i)
  \/ \E i \in Positions : CompleteTask(i)
  \/ ResetTasks
  \/ Save

\* Every operation of the store, with I/O errors, the clock at MaxTime.
Spec == Init /\ [][Next]_vars

\* The operations on the task sequence under a running clock, without I/O
\* errors.
NextClock ==
  \/ \E a \in AddInputs : Room /\ AddTask(a[1], a[2])
  \/ \E i \in Positions : RemoveTask(i)
  \/ \E i \in Positions : CompleteTask(i)
  \/ ResetTasks

SpecClock == InitClock /\ [][NextClock]_vars

\* The same operations with the history of the ids recorded.
SpecIds == InitIds /\ [][NextClock]_vars

\* The same operations, on tasks of one title and priority, with saves and
\* loads in between, as successive runs of the program do them.
NextReload ==
  \/ Room /\ AddTask("b", Some("High"))
  \/ \E i \in 0..MaxId : RemoveTask(i)
  \/ \E i \in 0..MaxId : CompleteTask(i)
  \/ ResetTasks
  \/ Save
  \/ LoadTasks(path)

SpecReload == InitClock /\ [][NextReload]_vars

\* Stores of up to MaxId + 1 ids, of one title and no priority, so that a
\* task can be added after one was removed from the middle of three; the
\* history of the ids is recorded.
NextMiddle ==
  \/ RoomForOneMore /\ AddTask("a", None)
  \/ \E i \in 1..(MaxId + 1) : RemoveTask(i)
  \/ \E i \in 1..(MaxId + 1) : CompleteTask(i)
  \/ ResetTasks

SpecMiddle == InitIds /\ [][NextMiddle]_vars

\* Before the first run of the program: no file, nothing in memory, the
\* clock at 0, no I/O error left to inject; the reference store is empty.
InitRuns ==
  /\ tasks = <<>>
  /\ path \in Paths
  /\ fs = EmptyFs
  /\ ioResult = "none"
  /\ ioErrors = MaxIoErrors
  /\ now = 0
  /\ out = <<>>
  /\ lastOp = "none"
  /\ effect = "none"
  /\ panicked = FALSE
  /\ assigned = None
  /\ shadow = Some(<<>>)

\* main has loaded the store and has not yet run the command
Loaded == lastOp = "load_tasks"

\* Successive runs of the program: each loads the store from the path, then
\* applies one command to it, which saves it; the reference store is given
\* the commands alone.
NextRuns ==
  \/ ~Loaded /\ LoadTasks(path)
  \/ \E a \in AddInputs : Loaded /\ Room /\ AddTask(a[1], a[2])
  \/ \E i \in Positions : Loaded /\ RemoveTask(i)
  \/ \E i \in Positions : Loaded /\ CompleteTask(i)
  \/ Loaded /\ ResetTasks

SpecRuns == InitRuns /\ [][NextRuns]_vars

\* remove and complete at positions from the ends of the i32 range.
NextI32 ==
  \/ \E a \in AddInputs : Room /\ AddTask(a[1], a[2])
  \/ \E i \in I32Positions : RemoveTask(i)
  \/ \E i \in I32Positions : CompleteTask(i)

SpecI32 == InitClock /\ [][NextI32]_vars

\* Stores built from empty by add, complete and reset alone.
NextNoRemove ==
  \/ \E a \in AddInputs : Room /\ AddTask(a[1], a[2])
  \/ \E i \in Positions : CompleteTask(i)
  \/ ResetTasks

SpecNoRemove == InitClock /\ [][NextNoRemove]_vars

\* the number of operations looked ahead from the empty store
MaxSteps == 5

\* Export and load applied to saved stores drawn from a bounded set: n
\* tasks added at time 0, some of them completed at time 0, bound to paths
\* of several extensions.
MaxExported == 2

InitExport ==
  \E n \in 0..MaxExported :
    \E inputs \in [1..n -> AddInputs], flags \in [1..n -> BOOLEAN] :
      /\ tasks = [k \in 1..n |->
                    Task(k, inputs[k][1], flags[k], 0,
                         IF flags[k] THEN Some(0) ELSE None, inputs[k][2])]
      /\ path \in ExportPaths
      /\ fs = SaveTasks(tasks, path, EmptyFs, "ok").fs
      /\ ioResult = "ok"
      /\ ioErrors = 0
      /\ now = 0
      /\ out = <<>>
      /\ lastOp = "save_tasks"
      /\ effect = "none"
      /\ panicked = FALSE
      /\ assigned = None
      /\ shadow = None

NextExport ==
  \/ \E format \in FormatEnum : ExportTasks(format)
  \/ LoadTasks(path)

SpecExport == InitExport /\ [][NextExport]_vars

\* The views applied to stores drawn from a bounded set: n tasks added at
\* time 0, some of them completed at time 0.
MaxView == 3

InitViews ==
  \E n \in 0..MaxView :
    \E inputs \in [1..n -> AddInputs], flags \in [1..n -> BOOLEAN] :
      /\ tasks = [k \in 1..n |->
                    Task(k, inputs[k][1], flags[k], 0,
                         IF flags[k] THEN Some(0) ELSE None, inputs[k][2])]
      /\ path \in Paths
      /\ fs = SaveTasks(tasks, path, EmptyFs, "ok").fs
      /\ ioResult = "ok"
      /\ ioErrors = 0
      /\ now = 0
      /\ out = <<>>
      /\ lastOp = IF n = 0 THEN "new"
                  ELSE IF \E k \in 1..n : flags[k] THEN "complete_task"
                  ELSE "add_task"
      /\ effect = IF \E k \in 1..n : flags[k] THEN "hit" ELSE "none"
      /\ panicked = FALSE
      /\ assigned = None
      /\ shadow = None

NextViews ==
  \/ ListTasks
  \/ ListCompletedTasks
  \/ ListPendingTasks

SpecViews == InitViews /\ [][NextViews]_vars

\* The list command with its flags, on the same stores.
NextList == \E completed, pending \in BOOLEAN : ListCommand(completed, pending)

SpecList == InitViews /\ [][NextList]_vars

\* ------------------------------------------------------------------ claims
\* C1: in every reachable store, every task has completed_at present
\* exactly when done is true.
C1_CompletedAtIffDone ==
  \A k \in 1..Len(tasks) : (tasks[k].completed_at # None) = tasks[k].done

\* a completed task next to a pending one, right after complete_task acted
C1_Witness ==
  /\ lastOp = "complete_task"
  /\ effect = "hit"
  /\ \E j, k \in 1..Len(tasks) :
       /\ tasks[j].done /\ tasks[j].completed_at # None
       /\ ~tasks[k].done /\ tasks[k].completed_at = None

\* C2: in every reachable store, no two tasks have the same id.
C2_UniqueIds ==
  \A j, k \in 1..Len(tasks) : j # k => tasks[j].id # tasks[k].id

\* an add after the first task was removed: the ids no longer equal the
\* positions
C2_Witness ==
  /\ lastOp = "add_task"
  /\ Len(tasks) = 2
  /\ tasks[1].id = 2
  /\ tasks[2].id = 3

\* C3: with no removal, the k-th added task has id k; the first has id 1.
C3_KthAddGetsIdK ==
  \A k \in 1..Len(tasks) : tasks[k].id = k

\* three adds with a completion in between
C3_Witness ==
  /\ lastOp = "add_task"
  /\ Len(tasks) = 3
  /\ tasks[3].id = 3
  /\ tasks[1].done

Mutating ==
  \/ lastOp \in {"new", "add_task", "remove_task", "complete_task",
                 "reset_tasks"}
  \/ lastOp = "load_tasks" /\ effect = "miss"

\* C4: after a mutating operation (new, add, remove, complete, reset, also
\* new reached through the fallback of load) that reported no I/O failure,
\* the file at the bound path holds the JSON text of the in-memory tasks;
\* a remove or complete that found nothing to act on is no exception.
C4_FileHoldsMemoryAfterMutation ==
  (Mutating /\ ioResult # "io_err") =>
     fs[path] = <<"json", Serialize(tasks)>>

\* a remove that found nothing to remove, after an earlier write had
\* failed, on a store with a completed and a pending task
C4_Witness ==
  /\ lastOp = "remove_task"
  /\ effect = "miss"
  /\ ioResult = "ok"
  /\ ioErrors > 0
  /\ Len(tasks) = 2
  /\ tasks[1].done
  /\ ~tasks[2].done
  /\ fs[path] = <<"json", Serialize(tasks)>>

SameTask(a, b) ==
  /\ a.id = b.id
  /\ a.title = b.title
  /\ a.done = b.done
  /\ (a.completed_at = None) = (b.completed_at = None)
  /\ a.priority = b.priority

SameStore(p) ==
  /\ path' = p
  /\ Len(tasks') = Len(tasks)
  /\ \A k \in 1..Len(tasks) : SameTask(tasks'[k], tasks[k])

\* C5: a load from the bound path right after a successful save, itself
\* without I/O error, yields the same number of tasks in the same order,
\* equal in id, title, done, presence of completed_at and priority, and the
\* store is bound to the path given to load.
C5_SaveLoadRoundTrip ==
  [][\A p \in Paths :
       (ioResult = "ok" /\ p = path /\ ioErrors' = ioErrors)
         => (SameStore(p) \/ ~LoadTasks(p))]_vars

\* the store of test_save_and_load loaded back, with no I/O error so far
C5_Witness ==
  /\ lastOp = "load_tasks"
  /\ effect = "hit"
  /\ ioErrors = 0
  /\ path \in Paths
  /\ Len(tasks) = 3
  /\ ~tasks[1].done
  /\ tasks[2].done /\ tasks[2].completed_at # None
  /\ tasks[2].priority = Some("High")
  /\ tasks[3].title = "a" /\ tasks[3].priority = None

NothingDone ==
  /\ tasks' = tasks
  /\ out' = <<>>
  /\ ioResult' = "io_err" => ioErrors' > ioErrors

DeletedAt(p) ==
  /\ Len(tasks') = Len(tasks) - 1
  /\ \A k \in 1..(p - 1) : tasks'[k] = tasks[k]
  /\ \A k \in p..(Len(tasks) - 1) : tasks'[k] = tasks[k + 1]

StampedAt(p) ==
  /\ Len(tasks') = Len(tasks)
  /\ tasks'[p].done
  /\ tasks'[p].completed_at = Some(now')
  /\ (tasks[p].done /\ now' > tasks[p].completed_at[1])
        => tasks'[p].completed_at # tasks[p].completed_at
  /\ tasks'[p].id = tasks[p].id
  /\ tasks'[p].title = tasks[p].title
  /\ tasks'[p].created_at = tasks[p].created_at
  /\ tasks'[p].priority = tasks[p].priority
  /\ \A k \in 1..Len(tasks) : k # p => tasks'[k] = tasks[k]

AllCleared ==
  /\ Len(tasks') = Len(tasks)
  /\ \A k \in 1..Len(tasks) :
       /\ ~tasks'[k].done
       /\ tasks'[k].completed_at = None
       /\ tasks'[k].id = tasks[k].id
       /\ tasks'[k].title = tasks[k].title
       /\ tasks'[k].created_at = tasks[k].created_at
       /\ tasks'[k].priority = tasks[k].priority
  /\ PendingTasks(tasks') = [k \in 1..Len(tasks) |-> k - 1]
  /\ CompletedTasks(tasks') = <<>>

\* C9: reset() leaves every task with done = false and no completed_at, so
\* the pending view is the whole sequence and the completed view is empty;
\* ids, titles, created_at, priorities, order and number of tasks stay.
C9_ResetClearsAll == [][AllCleared \/ ~ResetTasks]_vars

\* a reset of three tasks, some of them completed, created at two times
C9_Witness ==
  /\ lastOp = "reset_tasks"
  /\ effect = "hit"
  /\ Len(tasks) = 3
  /\ tasks[1].created_at < tasks[3].created_at
  /\ \A k \in 1..3 : ~tasks[k].done /\ tasks[k].completed_at = None

IsDone(t) == t.done

IsPending(t) == ~t.done

Ascending(view) == \A k \in 1..(Len(view) - 1) : view[k] < view[k + 1]

Range(view) == {view[k] : k \in 1..Len(view)}

Viewed(view) == [k \in 1..Len(view) |-> tasks[view[k] + 1]]

DisplayedFrom(ts) == [k \in 1..Len(ts) |-> Display(ts[k])]

\* C10: the completed view yields the positions of exactly the tasks with
\* done = true, the pending view those with done = false, each in sequence
\* order; no position is in both and every position is in one; the listing
\* displays the viewed tasks, and a second call displays the same.
C10_ViewsPartitionTasks ==
  /\ [](LET c == CompletedTasks(tasks)
            p == PendingTasks(tasks)
        IN /\ Ascending(c)
           /\ Ascending(p)
           /\ Range(c) = {i \in 0..(Len(tasks) - 1) : tasks[i + 1].done}
           /\ Range(p) = {i \in 0..(Len(tasks) - 1) : ~tasks[i + 1].done}
           /\ Viewed(c) = SelectSeq(tasks, IsDone)
           /\ Viewed(p) = SelectSeq(tasks, IsPending)
           /\ Range(c) \cap Range(p) = {}
           /\ Len(c) + Len(p) = Len(tasks)
           /\ lastOp = "list_completed_tasks"
                => out = DisplayedFrom(SelectSeq(tasks, IsDone))
           /\ lastOp = "list_pending_tasks"
                => out = DisplayedFrom(SelectSeq(tasks, IsPending)))
  /\ [][/\ (lastOp = "list_completed_tasks" /\ ListCompletedTasks)
             => out' = out
        /\ (lastOp = "list_pending_tasks" /\ ListPendingTasks)
             => out' = out]_vars

\* the pending listing of a store whose first and third task are completed
C10_Witness ==
  /\ lastOp = "list_pending_tasks"
  /\ Len(tasks) = 3
  /\ tasks[1].done
  /\ ~tasks[2].done
  /\ tasks[3].done
  /\ PendingTasks(tasks) = <<1>>
  /\ CompletedTasks(tasks) = <<0, 2>>
  /\ Len(out) = 1

\* the file holds nothing load_tasks can turn into a store
Unusable(content) == Deserialize(content) = None

CreatedAt(p) ==
  /\ tasks' = <<>>
  /\ path' = p
  /\ ~panicked'
  /\ \E o \in WriteOutcomes :
       /\ fs' = SaveTasks(<<>>, p, fs, o).fs
       /\ ioResult' = SaveTasks(<<>>, p, fs, o).result
  /\ ioResult' = "ok" => fs'[p] = <<"json", Serialize(<<>>)>>

\* C11: load(p) on a missing file, on a file that cannot be read or on
\* content that does not parse as a store returns the empty store bound to p
\* and does what create(p) does: it writes the empty store to p, so that,
\* unless that write fails, the earlier content of the file is gone.
C11_LoadFallsBackToCreate ==
  [][lastOp' = "load_tasks"
       => \A p \in Paths :
            (Unusable(fs[p]) \/ effect' = "miss")
              => (CreatedAt(p) \/ ~LoadTasks(p))]_vars

\* a load that found unparseable text, left by a failed write, and replaced
\* it by the empty store
C11_Witness ==
  /\ lastOp = "load_tasks"
  /\ effect = "miss"
  /\ ioResult = "ok"
  /\ ioErrors > 0
  /\ tasks = <<>>
  /\ fs[path] = <<"json", Serialize(<<>>)>>

ChangeStands ==
  /\ ~panicked'
  /\ lastOp' = "add_task"
       => /\ Len(tasks') = Len(tasks) + 1
          /\ \A k \in 1..Len(tasks) : tasks'[k] = tasks[k]
  /\ (lastOp' = "remove_task" /\ effect' = "hit")
       => Len(tasks') = Len(tasks) - 1
  /\ (lastOp' = "complete_task" /\ effect' # "miss")
       => \E k \in 1..Len(tasks') :
            /\ tasks'[k].done
            /\ tasks'[k].completed_at = Some(now')
            /\ effect' = "hit" => ~tasks[k].done
  /\ lastOp' = "reset_tasks"
       => /\ Len(tasks') = Len(tasks)
          /\ \A k \in 1..Len(tasks') : ~tasks'[k].done
  /\ fs'[path'] \in {fs[path], <<"garbage">>}

\* C12: when the save at the end of add, remove, complete or reset fails,
\* the operation returns without a panic and the change it made to the
\* tasks in memory stands; the file keeps its earlier content or is left
\* truncated, so it may differ from memory.
C12_FailedSaveKeepsChange ==
  [][(ioResult' = "io_err" /\ lastOp' \in {"add_task", "remove_task",
                                           "complete_task", "reset_tasks"})
       => ChangeStands]_vars

\* an add whose save failed: the task is in memory, the file is without it
C12_Witness ==
  /\ lastOp = "add_task"
  /\ ioResult = "io_err"
  /\ ~panicked
  /\ Len(tasks) = 2
  /\ fs[path] = <<"json", Serialize(SubSeq(tasks, 1, 1))>>

\* the checklist line the claim describes for task t
Conventional(line, t) ==
  /\ line.box = IF t.done THEN "x" ELSE ""
  /\ line.title = t.title
  /\ line.created = TimeToText(t.created_at)
  /\ (line.completed # None) = (t.completed_at # None)

ChecklistWritten ==
  LET file == fs'[WithExtension(path, "md")]
  IN /\ file[1] = "md"
     /\ Len(file[2]) = Len(tasks)
     /\ \A k \in 1..Len(tasks) : Conventional(file[2][k], tasks[k])

\* C13: a Markdown export that succeeds writes one line per task, in
\* sequence order, whose checkbox holds x exactly when the task is done and
\* which ends with the completed-at part exactly when completed_at is
\* present.
C13_MarkdownChecklist ==
  [][ioResult' = "ok" => (ChecklistWritten \/ ~ExportTasks("Markdown"))]_vars

\* the latest operation created a store: new, or new reached through the
\* fallback of load_tasks
Creating == lastOp = "new" \/ (lastOp = "load_tasks" /\ effect = "miss")

Appended(title, priority) ==
  /\ Len(tasks') = Len(tasks) + 1
  /\ \A k \in 1..Len(tasks) : tasks'[k] = tasks[k]
  /\ tasks'[Len(tasks')].title = title
  /\ tasks'[Len(tasks')].priority = priority
  /\ ~tasks'[Len(tasks')].done
  /\ tasks'[Len(tasks')].completed_at = None
  /\ tasks'[Len(tasks')].created_at = now'

\* C15: add(title, priority) on a store of n tasks leaves n + 1 tasks: the
\* first n as they were, in the same order, and a last one with the given
\* title and priority, done = false, no completed_at and created_at = the
\* time read by the call.
C15_AddAppends ==
  [][lastOp' = "add_task"
       => \A a \in AddInputs :
            Appended(a[1], a[2]) \/ ~AddTask(a[1], a[2])]_vars

\* a task with a priority added, later than the others, behind a completed
\* task and a pending one
C15_Witness ==
  /\ lastOp = "add_task"
  /\ Len(tasks) = 3
  /\ tasks[1].done
  /\ ~tasks[2].done
  /\ tasks[3].title = "b"
  /\ tasks[3].priority = Some("High")
  /\ tasks[3].created_at > tasks[1].created_at

NewestId == tasks'[Len(tasks')].id

\* C16 as stated: every add assigns an id greater than the ids assigned by
\* all earlier adds, so that no id is assigned twice.
C16_IdsNeverAssignedTwice ==
  [][lastOp' = "add_task" => NewestId > assigned[1]]_vars

\* C16 as amended: every add assigns an id greater than the id of every
\* task the store holds at that time, so that ids increase along the
\* sequence; the id of a task removed from the end is assigned again.
C16_IdsAboveThosePresent ==
  [][lastOp' = "add_task"
       => /\ \A k \in 1..Len(tasks) : NewestId > tasks[k].id
          /\ \A j, k \in 1..Len(tasks') :
               j < k => tasks'[j].id < tasks'[k].id]_vars

\* an add that assigned an id again: a higher id had been assigned before,
\* to a task since removed
C16_Witness ==
  /\ lastOp = "add_task"
  /\ Len(tasks) = 2
  /\ tasks[1].id = 1
  /\ tasks[2].id = 2
  /\ assigned = Some(3)

\* the files an export to a sink format must leave alone
SinkLeavesStore ==
  /\ tasks' = tasks
  /\ path' = path
  /\ fs'[path] = fs[path]
  /\ Deserialize(fs'[path]) = Deserialize(fs[path])

\* C17: an export to Csv, Yaml or Markdown leaves the tasks in memory and
\* the file at the bound path as they were, whatever the extension of the
\* bound path, so that a later load returns the same tasks.
C17_ExportIsOneWaySink ==
  [][\A format \in {"Csv", "Yaml", "Markdown"} :
       SinkLeavesStore \/ ~ExportTasks(format)]_vars

\* the tasks kept by a step, each with the created_at it had: all of them,
\* or all but the one at some position, the later ones moved up
CreatedAtKept ==
  \/ /\ Len(tasks') >= Len(tasks)
     /\ \A k \in 1..Len(tasks) : tasks'[k].created_at = tasks[k].created_at
  \/ /\ Len(tasks') = Len(tasks) - 1
     /\ \E p \in 1..Len(tasks) :
          /\ \A k \in 1..(p - 1) :
               tasks'[k].created_at = tasks[k].created_at
          /\ \A k \in p..Len(tasks') :
               tasks'[k].created_at = tasks[k + 1].created_at

\* C18: the created_at of a task is the time read by the add that created
\* it, and complete, reset, the removal of another task, a later add, a
\* save and a load of the saved file leave it as it is.
C18_CreatedAtIsKept ==
  [][/\ lastOp' = "add_task" => tasks'[Len(tasks')].created_at = now'
     /\ lastOp' = "remove_task" => Len(tasks') <= Len(tasks)
     /\ lastOp' \in {"add_task", "complete_task", "reset_tasks", "save_tasks",
                     "load_tasks"} => Len(tasks') >= Len(tasks)
     /\ CreatedAtKept]_vars

\* a loaded store whose tasks were created at different times, the older
\* one completed later
C18_Witness ==
  /\ lastOp = "load_tasks"
  /\ effect = "hit"
  /\ Len(tasks) = 2
  /\ tasks[1].created_at = 0
  /\ tasks[1].done
  /\ tasks[1].completed_at = Some(MaxTime)
  /\ tasks[2].created_at = MaxTime

\* the lines the list command is to display for its flags
Listing(completed, pending) ==
  IF completed THEN DisplayedFrom(SelectSeq(tasks, IsDone))
  ELSE IF pending THEN DisplayedFrom(SelectSeq(tasks, IsPending))
  ELSE DisplayedFrom(tasks)

C20_NoPanicOnAnyI32 ==
  [][\A i \in I32Positions :
       \/ /\ ~panicked'
          /\ (i < 1 \/ i > Len(tasks)) => tasks' = tasks
       \/ ~(RemoveTask(i) \/ CompleteTask(i))]_vars

\* the task pushed last by an add has the id of a task before it
Collides(ts) == \E k \in 1..(Len(ts) - 1) : ts[k].id = ts[Len(ts)].id

\* the store left by removing the task at a middle position p of ts and
\* then adding one
MiddleRemovedThenAdded(ts, p) == Added(Removed(ts, p), "a", None, 0)

\* some run of at most steps add, remove, complete and reset operations
\* from the store ts, then the removal of a task from the middle followed by
\* an add, ends in a collision
RECURSIVE CanCollide(_, _)
CanCollide(ts, steps) ==
  \/ \E p \in 2..(Len(ts) - 1) : Collides(MiddleRemovedThenAdded(ts, p))
  \/ /\ steps > 0
     /\ \/ CanCollide(Added(ts, "a", None, 0), steps - 1)
        \/ \E p \in 1..Len(ts) :
             \/ CanCollide(Removed(ts, p), steps - 1)
             \/ ~ts[p].done /\ CanCollide(Completed(ts, p, 0), steps - 1)
        \/ /\ \E k \in 1..Len(ts) : ts[k].done
           /\ CanCollide(Reset(ts), steps - 1)

\* C21 as stated: from the empty store, add, remove, complete and reset can
\* build a store in which removing a task from the middle and then adding
\* gives the new task the id of a task still present.
C21_MiddleRemovalCanCollide == tasks = <<>> => CanCollide(tasks, MaxSteps)

\* C21 as amended: in every store built from empty by add, remove, complete
\* and reset, removing a task from the middle and then adding gives the new
\* task an id that no task still present has; and no add ever assigns the
\* id of a task present.
C21_MiddleRemovalNeverCollides ==
  /\ [](\A p \in 2..(Len(tasks) - 1) :
          ~Collides(MiddleRemovedThenAdded(tasks, p)))
  /\ [][lastOp' = "add_task" => ~Collides(tasks')]_vars

\* an add after the second of three tasks was removed: the new task has id
\* 4, next to the tasks with ids 1 and 3
C21_Witness ==
  /\ lastOp = "add_task"
  /\ Len(tasks) = 3
  /\ tasks[1].id = 1
  /\ tasks[2].id = 3
  /\ tasks[3].id = 4
  /\ assigned = Some(4)

\* the tasks of the store equal, one by one and in order, those of the
\* reference store in id, title, done, presence of completed_at and priority
MatchesReference ==
  /\ Len(tasks) = Len(shadow[1])
  /\ \A k \in 1..Len(tasks) : SameTask(tasks[k], shadow[1][k])

\* C22: without I/O failures, after any sequence of commands run as separate
\* invocations (load from the path, one add, remove, complete or reset, which
\* saves), the store holds the same task sequence (ids, titles, done flags,
\* presence of completed_at, priorities, order) as one store kept in memory
\* from empty and given the same operations.
C22_RunsMatchOneStore == shadow # None => MatchesReference

\* the fifth run has loaded what four runs left: three adds, the second task
\* completed, the first removed; the reference store holds the same
C22_Witness ==
  /\ shadow # None
  /\ Loaded /\ effect = "hit"
  /\ Len(tasks) = 2 /\ Len(shadow[1]) = 2
  /\ tasks[1].id = 2 /\ tasks[1].done /\ tasks[1].completed_at # None
  /\ tasks[1].priority = Some("High")
  /\ tasks[2].id = 3 /\ ~tasks[2].done /\ tasks[2].priority = None
  /\ shadow[1][1].id = 2 /\ shadow[1][2].id = 3

====
